---- MODULE Spec2Model ----
(***************************************************************************)
(* A model of the MCP multi-cloud question answering system:               *)
(*   - scanner/metadata_store.py : FileMeta and the side-car store         *)
(*   - scanner/core.py           : scan_object                             *)
(*   - scanner/auto_desc.py      : auto_describe                           *)
(*   - aws_s3/client_s3.py       : the S3 per-source answer routine        *)
(*   - azure_blob/client_azure.py: the Azure per-source answer routine     *)
(*   - client.py                 : the orchestrator                        *)
(*                                                                         *)
(* A text (a Python str) is a sequence of tokens: words, the colon, and    *)
(* the line break NL.  Concatenation is \o.  A path "container/key" is the *)
(* pair <<container, key>> with key a text.  An optional value is a        *)
(* sequence of length 0 (None) or 1.  Time is counted in ticks,            *)
(* TicksPerSec ticks to the second.                                        *)
(***************************************************************************)
EXTENDS Integers, Sequences, FiniteSets, TLC

\* ------------------------------------------------------------- bounds
MaxTime == 2            \* the clock runs from 0 to MaxTime ticks
MaxSteps == 3           \* longest plan the planner returns
MaxLines == 4           \* longest model reply, in lines, of the parser check
MaxPuts == 3            \* most write_meta calls of the concurrent writers
TicksPerSec == 2        \* clock resolution below the second

VARIABLES
    env,        \* os.environ: S3_BUCKET, AZURE_CONTAINER
    TEST_MODE,  \* metadata_store.TEST_MODE
    objects,    \* the data objects each backend lists
    store,      \* the persisted side-cars: location -> bytes
    now,        \* the clock, in ticks
    routed,     \* history: identifier -> the routing decisions seen so far
    last,       \* history: the latest per-source answer call made directly
    pc,         \* orchestrator: position in answer(question)
    plan,       \* orchestrator: the planner's reply, [reply, steps]
    results,    \* orchestrator: _execute_plan's results
    history,    \* orchestrator: _execute_plan's history
    dispatched, \* history: the per-source calls of this request
    merges,     \* history: the merge calls of this request
    outcome,    \* orchestrator: how the request ended
    written,    \* history: the FileMeta objects the latest action handed to write_meta
    pRaw,       \* parser check: the model reply under test
    pOut,       \* parser check: what the two answer routines made of it
    rw,         \* concurrent requests: each one's place in its get-then-write
    puts,       \* history: the write_meta calls the concurrent requests completed
    attempts    \* history: the paths auto_describe or the describing model was asked about

vars == <<env, TEST_MODE, objects, store, now, routed, last, pc, plan, results,
          history, dispatched, merges, outcome, written, pRaw, pOut, rw, puts, attempts>>

\* ------------------------------------------------------------- texts
NL == "<nl>"
COLON == ":"
None == <<>>
Some(x) == <<x>>


\* str.strip(): leading and trailing whitespace removed
Strip(t) ==
    LET idx == {i \in 1..Len(t) : t[i] # NL}
    IN  IF idx = {} THEN <<>>
        ELSE LET lo == CHOOSE i \in idx : \A j \in idx : i <= j
                 hi == CHOOSE i \in idx : \A j \in idx : i >= j
             IN  SubSeq(t, lo, hi)

\* the words of str.split()
Words(t) == SelectSeq(t, LAMBDA w : w # NL)

\* the first index of a token of set toks in t, 0 when there is none
FirstIn(t, toks) ==
    LET idx == {i \in 1..Len(t) : t[i] \in toks}
    IN  IF idx = {} THEN 0 ELSE CHOOSE i \in idx : \A j \in idx : i <= j

\* the last index of a token of set toks in t, 0 when there is none
LastIn(t, toks) ==
    LET idx == {i \in 1..Len(t) : t[i] \in toks}
    IN  IF idx = {} THEN 0 ELSE CHOOSE i \in idx : \A j \in idx : i >= j

\* position i of t is a whole line: ^...$ under re.M
Standalone(t, i) ==
    /\ (i = 1 \/ t[i - 1] = NL)
    /\ (i = Len(t) \/ t[i + 1] = NL)

\* the first index where a token of toks stands alone on its line, 0 when none
FirstStandalone(t, toks) ==
    LET idx == {i \in 1..Len(t) : t[i] \in toks /\ Standalone(t, i)}
    IN  IF idx = {} THEN 0 ELSE CHOOSE i \in idx : \A j \in idx : i <= j

After(t, i) == SubSeq(t, i + 1, Len(t))
Before(t, i) == SubSeq(t, 1, i - 1)

\* str.splitlines()
RECURSIVE SplitLines(_)
SplitLines(t) ==
    IF t = <<>> THEN <<>>
    ELSE LET i == FirstIn(t, {NL})
         IN  IF i = 0 THEN <<t>>
             ELSE <<Before(t, i)>> \o SplitLines(After(t, i))

\* s occurs in t as a contiguous run starting at position i
OccursAt(t, s, i) == i >= 1 /\ i + Len(s) - 1 <= Len(t) /\ SubSeq(t, i, i + Len(s) - 1) = s

\* ------------------------------------------------------------- FileMeta
ISO_FMT(t) == [sec |-> t \div TicksPerSec]         \* strftime("%Y-%m-%dT%H:%M:%SZ")
ParseIso(s) == s.sec * TicksPerSec                 \* strptime(.., ISO_FMT)

FileMeta(path, cloud, title, description, mime_type, size, last_scanned) ==
    [path |-> path, cloud |-> cloud, title |-> title, description |-> description,
     mime_type |-> mime_type, size |-> size, last_scanned |-> last_scanned]

\* FileMeta.to_json: the fields as they are, last_scanned formatted
to_json(m) == [m EXCEPT !.last_scanned = ISO_FMT(m.last_scanned)]

\* FileMeta.from_json
from_json(d) == [d EXCEPT !.last_scanned = ParseIso(d.last_scanned)]

\* the bytes of a side-car: a JSON document, whole or truncated
Bytes(doc) == [doc |-> doc, truncated |-> FALSE]
Truncated == [doc |-> to_json(FileMeta(<<"", <<>>>>, "", <<>>, <<>>, "", 0, 0)),
              truncated |-> TRUE]

\* ------------------------------------------------------------- SidecarStore
KnownS3Bucket == "my-api-bucket-100757077"
KnownAzContainer == "feedback"
Identifiers == {"mcp-data", KnownS3Bucket, KnownAzContainer, "datasets", "files.corp", "archive"}
Dotted == {"files.corp"}                           \* the identifiers with a "." in them

Configs == { [S3_BUCKET |-> "mcp-data", AZURE_CONTAINER |-> "datasets"],
             [S3_BUCKET |-> KnownS3Bucket, AZURE_CONTAINER |-> KnownAzContainer] }

BUCKET == env.S3_BUCKET
AZ_CONTAINER == env.AZURE_CONTAINER

\* a variant of _is_s3_bucket whose default for an unrecognised name follows
\* the backend the store has saved to so far
is_s3_bucket_sticky(name) ==
    LET s3_buckets == {env.S3_BUCKET, KnownS3Bucket}
        az_containers == {env.AZURE_CONTAINER, KnownAzContainer}
    IN  IF name \in s3_buckets THEN TRUE
        ELSE IF name \in az_containers THEN FALSE
        ELSE IF name \in Dotted THEN FALSE
        ELSE ~(\E l \in DOMAIN store : l[1] = "azure")

\* SidecarStore._is_s3_bucket
is_s3_bucket(name) ==
    LET s3_buckets == {env.S3_BUCKET, KnownS3Bucket}
        az_containers == {env.AZURE_CONTAINER, KnownAzContainer}
    IN  IF name \in s3_buckets THEN TRUE
        ELSE IF name \in az_containers THEN FALSE
        ELSE IF name \in Dotted THEN FALSE
        ELSE TRUE

\* the backend _save and _load go to once _is_s3_bucket has answered
Backend(name) == IF is_s3_bucket(name) THEN "s3" ELSE "azure"

\* where _save puts the side-car of path: TEST_MODE is not consulted
SaveLoc(path) == <<Backend(path[1]), path[1], path[2]>>

\* where _load looks for the side-car of path
LoadLoc(path) ==
    IF TEST_MODE THEN <<"local", path[1], path[2]>>
    ELSE <<Backend(path[1]), path[1], path[2]>>

\* a variant of _save that does not overwrite a side-car that is there
save_keep_first(st, path, data) ==
    [l \in DOMAIN st \cup {SaveLoc(path)} |-> IF l \in DOMAIN st THEN st[l] ELSE data]

\* a variant of _save that clears the store before it writes
save_alone(st, path, data) == [l \in {SaveLoc(path)} |-> data]

\* SidecarStore._save
save(st, path, data) ==
    [l \in DOMAIN st \cup {SaveLoc(path)} |-> IF l = SaveLoc(path) THEN data ELSE st[l]]

\* SidecarStore._load: the bytes, or None where the read raises
load(st, path) ==
    IF LoadLoc(path) \in DOMAIN st THEN Some(st[LoadLoc(path)]) ELSE None

\* a variant of write_meta that files the side-car under the backend of the
\* record's source tag
write_meta_by_cloud(st, meta) ==
    [l \in DOMAIN st \cup {<<meta.cloud, meta.path[1], meta.path[2]>>} |->
        IF l = <<meta.cloud, meta.path[1], meta.path[2]>> THEN Bytes(to_json(meta)) ELSE st[l]]

\* SidecarStore.write_meta
write_meta(st, meta) == save(st, meta.path, Bytes(to_json(meta)))

\* a variant of get_meta that parses whatever bytes it finds
get_meta_lenient(st, path) ==
    LET raw == load(st, path)
    IN  IF raw = None THEN None ELSE Some(from_json(raw[1].doc))

\* SidecarStore.get_meta: every exception of _load and from_json gives None
get_meta(st, path) ==
    LET raw == load(st, path)
    IN  IF raw = None THEN None
        ELSE IF raw[1].truncated THEN None
        ELSE Some(from_json(raw[1].doc))

\* SidecarStore._iter_keys: the side-car keys a listing yields
iter_keys(st) ==
    IF TEST_MODE THEN {<<l[2], l[3]>> : l \in {k \in DOMAIN st : k[1] = "local"}}
    ELSE {<<l[2], l[3]>> : l \in {k \in DOMAIN st :
              \/ k[1] = "s3" /\ k[2] = env.S3_BUCKET
              \/ k[1] = "azure" /\ k[2] \in {env.AZURE_CONTAINER, KnownAzContainer}}}

\* SidecarStore.read_all: the records of the listed keys that load and parse
read_all(st) ==
    {get_meta(st, k)[1] : k \in {p \in iter_keys(st) : get_meta(st, p) # None}}

\* ------------------------------------------------------------- the data objects
Orders == <<"orders.csv">>
Notes == <<"notes.txt">>
Customers == <<"customers.csv">>
Ghost == <<"ghost.csv">>                           \* a key no backend lists
AllKeys == {Orders, Notes, Customers}

\* the sample of each object as pandas reads it: its columns, or nothing
\* where neither read_csv nor read_parquet can parse the preview
Col(name, unique) == [name |-> name, unique |-> unique]
Table(key) ==
    IF key = Orders THEN Some(<<Col("order_id", TRUE), Col("customer_id", FALSE), Col("total", FALSE)>>)
    ELSE IF key = Customers THEN Some(<<Col("customer_id", TRUE), Col("name", FALSE)>>)
    ELSE None
IdNames == {"order_id", "customer_id"}             \* the names matching (^|_)id$
ObjSize(key) == IF key = Orders THEN 120 ELSE IF key = Customers THEN 80 ELSE 40
ObjMime(key) == IF key = Notes THEN "text/plain" ELSE "text/csv"

\* the bucket and container listings the model starts from, in listing order
Listings == { [s3 |-> <<Orders>>, azure |-> <<Customers>>],
              [s3 |-> <<Notes, Orders>>, azure |-> <<Customers>>] }

RECURSIVE Join(_, _)
Join(ts, sep) ==
    IF ts = <<>> THEN <<>>
    ELSE IF Len(ts) = 1 THEN ts[1]
    ELSE ts[1] \o sep \o Join(Tail(ts), sep)

\* auto_desc.auto_describe: [raised, desc]
auto_describe(key) ==
    IF Table(key) = None THEN [raised |-> TRUE, desc |-> <<>>]
    ELSE
      LET cols == Table(key)[1]
          ids == SelectSeq(cols, LAMBDA c : c.name \in IdNames)
          uniq == SelectSeq(ids, LAMBDA c : c.unique)
          pk == IF uniq # <<>> THEN uniq[1].name ELSE cols[1].name
          fks == SelectSeq(ids, LAMBDA c : c.name # pk)
          bits == <<<<"PK=", pk>>>>
                  \o (IF fks # <<>>
                      THEN <<<<"FK=">> \o Join([i \in 1..Len(fks) |-> <<fks[i].name>>], <<",">>)>>
                      ELSE <<>>)
      IN  [raised |-> FALSE, desc |-> Join(bits, <<"·">>)]

\* ------------------------------------------------------------- scanner/core.py
basename(path) == path[2]                          \* os.path.basename("bucket/key")

\* the describing model's replies
LongDesc == <<"orders", "per", "customer">>
ShortDesc == <<"Table">>
ScanReplies == {LongDesc, ShortDesc}

\* what goes wrong at the backend while one object is scanned: nothing, the
\* download of its head, the lookup of its properties, or the write of its
\* side-car
FailKinds == {"head", "props", "write"}
NoFail == [k \in AllKeys |-> "none"]
Fails == {NoFail} \cup {[k \in AllKeys |-> IF k = j THEN f ELSE "none"] : j \in AllKeys, f \in FailKinds}

\* scan_object: _download_head is called outside the try and its failure goes
\* to the caller; inside the try the model is asked, a description of more than
\* two words is saved with the object's properties (the defaults where their
\* lookup fails), any other reply is dropped, and a failing write is printed
scan_object(st, path, cloud, io, t) ==
    LET f == io.fail[path[2]]
        desc == Strip(io.desc[path[2]])
        meta == FileMeta(path, cloud, basename(path), desc,
                         IF f = "props" THEN "application/octet-stream" ELSE ObjMime(path[2]),
                         IF f = "props" THEN 0 ELSE ObjSize(path[2]), t)
    IN  IF f = "head" THEN [store |-> st, written |-> <<>>, raised |-> TRUE, asked |-> FALSE]
        ELSE IF f # "write" /\ Len(Words(desc)) > 2
        THEN [store |-> write_meta(st, meta), written |-> <<meta>>, raised |-> FALSE, asked |-> TRUE]
        ELSE [store |-> st, written |-> <<>>, raised |-> FALSE, asked |-> TRUE]

\* ------------------------------------------------------------- the per-source clients
\* the result of a per-source answer call
Result(pre, raised, ret, wr, prompt, republished) ==
    [store |-> pre.store, raised |-> raised, ret |-> ret, scanned |-> pre.scanned,
     attempted |-> pre.attempted, written |-> wr, prompt |-> prompt,
     republished |-> republished]

NoData(target) == <<"No data found for file:">> \o target

\* _KV.match(ln): the first colon with text after it splits path and description
KV(ln) ==
    LET c == FirstIn(ln, {COLON})
    IN  IF c # 0 /\ c < Len(ln)
        THEN Some([p |-> Strip(Before(ln, c)), desc |-> Strip(After(ln, c))])
        ELSE None

\* the body of the DESCRIPTIONS section: after _HDR1 (a line DESCRIPTIONS), else
\* after _HDR2 (the word, in any case), up to the first line that _SPLIT matches
DescWords == {"DESCRIPTIONS", "descriptions"}
HasDescriptions(raw) == FirstStandalone(raw, {"DESCRIPTIONS"}) # 0 \/ FirstIn(raw, DescWords) # 0
DescriptionsChunk(raw) ==
    LET h1 == FirstStandalone(raw, {"DESCRIPTIONS"})
        h == IF h1 # 0 THEN h1 ELSE FirstIn(raw, DescWords)
        idx == {i \in (h + 1)..Len(raw) : raw[i] \in {"SELECTED_FILES", "ANSWER"} /\ Standalone(raw, i)}
        e == IF idx = {} THEN Len(raw) + 1 ELSE CHOOSE i \in idx : \A j \in idx : i <= j
    IN  SubSeq(raw, h + 1, e - 1)

\* the loop that caches the DESCRIPTIONS lines (client_s3.answer, client_azure.answer)
RECURSIVE Republish(_, _, _, _, _)
Republish(acc, lines, container, cloud, t) ==
    IF lines = <<>> THEN acc
    ELSE
      LET m == KV(Strip(Head(lines)))
      IN  IF m = None THEN Republish(acc, Tail(lines), container, cloud, t)
          ELSE
            LET key == m[1].p
                full_path == <<container, key>>
                existing == get_meta(acc.store, full_path)
                meta == IF existing # None
                        THEN [existing[1] EXCEPT !.description = m[1].desc]
                        ELSE FileMeta(full_path, cloud, key, m[1].desc,
                                      "application/octet-stream", 0, t)
            IN  Republish([store |-> write_meta(acc.store, meta),
                           written |-> Append(acc.written, meta),
                           republished |-> Append(acc.republished, full_path)],
                          Tail(lines), container, cloud, t)

\* what the answer routines return of the reply: the text after the first ANSWER
AnswerText(raw) ==
    IF FirstIn(raw, {"ANSWER"}) # 0
    THEN Strip(After(raw, FirstIn(raw, {"ANSWER"})))
    ELSE raw

\* `if target_path:` is false for None and for the empty string
Targeted(target) == target # None /\ target[1] # <<>>

Doc(key, cached) ==
    [path |-> key, title |-> key,
     description |-> IF cached # None THEN cached[1].description ELSE <<>>]

\* a variant of _auto_prescan without the `continue` for files that have a record
RECURSIVE s3_auto_prescan_always(_, _, _, _)
s3_auto_prescan_always(acc, files, io, t) ==
    IF files = <<>> \/ acc.raised THEN acc
    ELSE
      LET key == Head(files)
          full_path == <<BUCKET, key>>
          ad == auto_describe(key)
          seed == FileMeta(full_path, "s3", key, ad.desc, "application/octet-stream", 0, t)
          sc == scan_object(write_meta(acc.store, seed), full_path, "s3", io, t)
      IN  IF io.fail[key] = "head" THEN [acc EXCEPT !.raised = TRUE]
          ELSE IF io.fail[key] = "write" \/ ad.raised
          THEN [acc EXCEPT !.raised = TRUE, !.attempted = @ \cup {full_path}]
          ELSE s3_auto_prescan_always([store |-> sc.store, raised |-> sc.raised,
                                       scanned |-> Append(acc.scanned, full_path),
                                       attempted |-> acc.attempted \cup {full_path},
                                       written |-> acc.written \o <<seed>> \o sc.written],
                                      Tail(files), io, t)

\* client_s3._auto_prescan: _read, auto_describe, write_meta of the seed and
\* scan_object, none of them inside a try
RECURSIVE s3_auto_prescan(_, _, _, _)
s3_auto_prescan(acc, files, io, t) ==
    IF files = <<>> \/ acc.raised THEN acc
    ELSE
      LET key == Head(files)
          full_path == <<BUCKET, key>>
      IN  IF get_meta(acc.store, full_path) # None
          THEN s3_auto_prescan(acc, Tail(files), io, t)
          ELSE
            LET ad == auto_describe(key)
                seed == FileMeta(full_path, "s3", key, ad.desc, "application/octet-stream", 0, t)
                sc == scan_object(write_meta(acc.store, seed), full_path, "s3", io, t)
            IN  IF io.fail[key] = "head" THEN [acc EXCEPT !.raised = TRUE]
                ELSE IF io.fail[key] = "write" \/ ad.raised
                THEN [acc EXCEPT !.raised = TRUE, !.attempted = @ \cup {full_path}]
                ELSE s3_auto_prescan([store |-> sc.store, raised |-> sc.raised,
                                      scanned |-> Append(acc.scanned, full_path),
                                      attempted |-> acc.attempted \cup {full_path},
                                      written |-> acc.written \o <<seed>> \o sc.written],
                                     Tail(files), io, t)

\* client_s3._collect_docs
s3_collect_docs(st, files) ==
    [i \in 1..Len(files) |-> Doc(files[i], get_meta(st, <<BUCKET, files[i]>>))]

\* the tail of both answer routines, from the filter on target_path on
AnswerTail(pre, docs0, question, target, io, t, container, cloud) ==
    LET docs == IF Targeted(target) THEN SelectSeq(docs0, LAMBDA d : d.path = target[1]) ELSE docs0
        prompt == [question |-> question, docs |-> docs]
        raw == Strip(io.reply[1])
        rep == IF HasDescriptions(raw)
               THEN Republish([store |-> pre.store, written |-> <<>>, republished |-> <<>>],
                              SplitLines(DescriptionsChunk(raw)), container, cloud, t)
               ELSE [store |-> pre.store, written |-> <<>>, republished |-> <<>>]
    IN  IF Targeted(target) /\ docs = <<>>
        THEN Result(pre, FALSE, NoData(target[1]), pre.written, None, <<>>)
        ELSE IF io.reply = None
        THEN Result(pre, TRUE, <<>>, pre.written, Some(prompt), <<>>)
        ELSE Result([pre EXCEPT !.store = rep.store], FALSE, AnswerText(raw),
                    pre.written \o rep.written, Some(prompt), rep.republished)

\* client_s3.answer
s3_answer(st, question, target, io, t) ==
    LET pre == s3_auto_prescan([store |-> st, raised |-> FALSE, scanned |-> <<>>, attempted |-> {}, written |-> <<>>],
                               objects.s3, io, t)
    IN  IF pre.raised
        THEN Result(pre, TRUE, <<>>, pre.written, None, <<>>)
        ELSE AnswerTail(pre, s3_collect_docs(pre.store, objects.s3), question, target, io, t,
                        BUCKET, "s3")

\* client_azure._prescan: write_meta of the blank record and scan_object, neither
\* inside a try
RECURSIVE az_prescan(_, _, _, _)
az_prescan(acc, files, io, t) ==
    IF files = <<>> \/ acc.raised THEN acc
    ELSE
      LET key == Head(files)
          full_path == <<AZ_CONTAINER, key>>
          meta_obj == FileMeta(full_path, "azure", key, <<>>, "", 0, t)
          sc == scan_object(write_meta(acc.store, meta_obj), full_path, "azure", io, t)
      IN  IF get_meta(acc.store, full_path) # None
          THEN az_prescan(acc, Tail(files), io, t)
          ELSE IF io.fail[key] = "write" THEN [acc EXCEPT !.raised = TRUE]
          ELSE az_prescan([store |-> sc.store, raised |-> sc.raised,
                           scanned |-> Append(acc.scanned, full_path),
                           attempted |-> IF sc.asked THEN acc.attempted \cup {full_path}
                                         ELSE acc.attempted,
                           written |-> acc.written \o <<meta_obj>> \o sc.written],
                          Tail(files), io, t)

\* client_azure._collect_docs, after its _prescan
az_collect_docs(st, files) ==
    [i \in 1..Len(files) |-> Doc(files[i], get_meta(st, <<AZ_CONTAINER, files[i]>>))]

\* client_azure.answer
az_answer(st, question, target, io, t) ==
    LET pre == az_prescan([store |-> st, raised |-> FALSE, scanned |-> <<>>, attempted |-> {}, written |-> <<>>],
                          objects.azure, io, t)
    IN  IF pre.raised
        THEN Result(pre, TRUE, <<>>, pre.written, None, <<>>)
        ELSE AnswerTail(pre, az_collect_docs(pre.store, objects.azure), question, target, io, t,
                        AZ_CONTAINER, "azure")

\* ------------------------------------------------------------- client.py
NoPlanMsg == <<"I couldn't create an execution plan for your query.">>
SkippedMsg == <<"Skipped step: missing cloud or dataset.", NL>>
StepTags == <<"[step 1]", "[step 2]", "[step 3]", "[step 4]", "[step 5]", "[step 6]">>
SubQs == <<"subq 1", "subq 2", "subq 3", "subq 4", "subq 5", "subq 6">>
CtxHead == <<NL, NL, "----- PREVIOUS ANSWERS -----", NL>>
CtxFoot == <<NL, "-----------------------------", NL, NL>>

upper(cloud) == CASE cloud \in {"s3", "S3"} -> "S3" [] cloud = "azure" -> "AZURE" [] OTHER -> "GCS"
lower(cloud) == CASE cloud = "S3" -> "s3" [] OTHER -> cloud

\* client._augment: every answer of history, tagged by its place in history,
\* in front of the sub-question
\* a variant of _augment that puts the context after the sub-question
augment_ctx_last(subq, hist) ==
    IF hist = <<>> THEN subq
    ELSE subq \o CtxHead
         \o Join([i \in 1..Len(hist) |-> <<StepTags[i], NL>> \o hist[i]], <<NL, NL>>)
         \o CtxFoot

augment(subq, hist) ==
    IF hist = <<>> THEN subq
    ELSE CtxHead
         \o Join([i \in 1..Len(hist) |-> <<StepTags[i], NL>> \o hist[i]], <<NL, NL>>)
         \o CtxFoot \o subq

\* the enhanced prompt of _execute_plan
enhanced_prompt(dataset, cloud, subq) ==
    <<"You are a data extraction expert.", NL, "File:">> \o dataset
    \o <<NL, "Cloud:", upper(cloud), NL, "QUESTION:">> \o subq
    \o <<NL, "Return direct results from the file.", NL>> \o NoData(dataset)

\* all_files of _build_dataset_and_schema_blocks: the (path, cloud) pairs that
\* the planner is told exist
AllowList ==
    {<<objects.s3[i], "s3">> : i \in DOMAIN objects.s3}
    \cup {<<objects.azure[i], "azure">> : i \in DOMAIN objects.azure}

\* a plan step: step.get("dataset"), step.get("cloud"), step.get("sub_question", "")
Step(dataset, cloud, subq) == [dataset |-> dataset, cloud |-> cloud, sub_question |-> subq]
Skipped(step) == step.cloud = None \/ step.cloud[1] = "" \/ step.dataset = None \/ step.dataset[1] = <<>>

\* the client a dispatched step goes to
ClientOf(step) == IF lower(step.cloud[1]) = "s3" THEN "s3" ELSE "azure"

\* the steps a planner reply may hold at place i
StepChoices(i) ==
    { Step(Some(Orders), Some("S3"), <<SubQs[i]>>),
      Step(Some(Customers), Some("azure"), <<SubQs[i]>>),
      Step(Some(Ghost), Some("gcs"), <<SubQs[i]>>),
      Step(None, Some("s3"), <<SubQs[i]>>) }
Plans == UNION { {p \in [1..n -> UNION {StepChoices(i) : i \in 1..n}] :
                    \A i \in 1..n : p[i] \in StepChoices(i)} : n \in 0..MaxSteps }

\* the answering model's replies to a step, and the merging model's replies
GoodReply == <<"DESCRIPTIONS", NL, "orders.csv", COLON, "orders", "with", "totals", NL, NL,
               "SELECTED_FILES", NL, "orders.csv", NL, NL, "ANSWER", NL, "answer", "one">>
BareReply == <<"answer", "two">>
\* the reply to step i of a plan, and the reply to merge call k
ReplyFor(i) == <<"DESCRIPTIONS", NL, "orders.csv", COLON, "orders", "with", "totals", NL, NL,
                 "SELECTED_FILES", NL, "orders.csv", NL, NL, "ANSWER", NL, "answer", "to", SubQs[i]>>
MergeFor(k) == <<"merged", StepTags[k], NL>>

ScanIO == {[k \in AllKeys |-> d] : d \in ScanReplies}
\* what the outside answers during one call: the describing model's reply per
\* object, and the answering model's reply (None: the model call raises)
IO(desc, reply) == [desc |-> desc, reply |-> reply, fail |-> NoFail]
\* the same where something goes wrong while the objects are scanned
IOF(desc, reply, fail) == [desc |-> desc, reply |-> reply, fail |-> fail]

\* the pre-scan loops of client.answer: [store, scanned, attempted, written, raised]
RECURSIVE discover_loop(_, _, _, _, _, _)
discover_loop(acc, files, container, cloud, io, t) ==
    IF files = <<>> \/ acc.raised THEN acc
    ELSE
      LET full_path == <<container, Head(files)>>
          sc == scan_object(acc.store, full_path, cloud, io, t)
      IN  IF get_meta(acc.store, full_path) # None
          THEN discover_loop(acc, Tail(files), container, cloud, io, t)
          ELSE discover_loop([store |-> sc.store,
                              scanned |-> Append(acc.scanned, full_path),
                              attempted |-> IF sc.asked THEN acc.attempted \cup {full_path}
                                            ELSE acc.attempted,
                              written |-> acc.written \o sc.written,
                              raised |-> sc.raised],
                             Tail(files), container, cloud, io, t)

discover(st, io, t) ==
    discover_loop(discover_loop([store |-> st, scanned |-> <<>>, attempted |-> {},
                                 written |-> <<>>, raised |-> FALSE],
                                objects.s3, BUCKET, "s3", io, t),
                  objects.azure, AZ_CONTAINER, "azure", io, t)

\* ------------------------------------------------------------- the state machine
\* the latest call of a per-source client or of the discovery pass (for the
\* discovery pass with the store, the describing model's replies and the clock
\* it started from), and what the run of up to two successive calls of one
\* client it belongs to has done: n calls, which found the records `had` before
\* the first of them and have scanned and republished the paths of run
NoCall == [client |-> "none", target |-> None, raised |-> FALSE, ret |-> <<>>,
           scanned |-> <<>>, republished |-> <<>>, prompt |-> None, corrupt |-> {},
           pre |-> <<>>, desc |-> <<>>, t |-> 0,
           n |-> 0, had |-> {}, run |-> [scanned |-> {}, republished |-> {}]]
NoOutcome == [kind |-> "none", text |-> <<>>]
\* the planner's reply: none yet, text that is no JSON, an object without
\* "steps", or an object with "steps"; steps is plan.get("steps", [])
NoPlan == [reply |-> "none", steps |-> <<>>]
PlanOf(reply) ==
    [reply |-> IF ~reply.json THEN "invalid" ELSE IF reply.steps = None THEN "absent" ELSE "steps",
     steps |-> IF reply.json /\ reply.steps # None THEN reply.steps[1] ELSE <<>>]
Returned(text) == [kind |-> "returned", text |-> text]
Raised == [kind |-> "raised", text |-> <<>>]
Question == <<"which", "customers", "placed", "orders?">>

Range(f) == {f[i] : i \in DOMAIN f}

\* the listed paths whose side-car reads as a record with a description, each
\* with its last_scanned
Described(st, container, files) ==
    {[path |-> <<container, files[i]>>,
      last_scanned |-> get_meta(st, <<container, files[i]>>)[1].last_scanned] :
        i \in {j \in 1..Len(files) :
                 /\ get_meta(st, <<container, files[j]>>) # None
                 /\ get_meta(st, <<container, files[j]>>)[1].description # <<>>}}

\* the listed paths whose side-car is there and is no JSON
Corrupted(st, container, files) ==
    {<<container, files[i]>> : i \in {j \in 1..Len(files) :
        /\ load(st, <<container, files[j]>>) # None
        /\ load(st, <<container, files[j]>>)[1].truncated}}

Call(client, target, r, container, files) ==
    LET second == last.client = client /\ last.n = 1
    IN  [client |-> client, target |-> target, raised |-> r.raised, ret |-> r.ret,
         scanned |-> r.scanned, republished |-> r.republished, prompt |-> r.prompt,
         corrupt |-> Corrupted(store, container, files),
         pre |-> <<>>, desc |-> <<>>, t |-> 0,
         n |-> IF second THEN 2 ELSE 1,
         had |-> IF second THEN last.had ELSE Described(store, container, files),
         run |-> IF second
                 THEN [scanned |-> last.run.scanned \cup Range(r.scanned),
                       republished |-> last.run.republished \cup Range(r.republished)]
                 ELSE [scanned |-> Range(r.scanned), republished |-> Range(r.republished)]]

\* the requests that run at the same time, and one that is not inside a
\* get-then-write
Writers == {"request 1", "request 2"}
Idle == [pc |-> "idle", op |-> "none", existing |-> None, meta |-> None, data |-> None]

\* what an answer call made of the reply pRaw
NoOut == [client |-> "none", raised |-> FALSE, ret |-> <<>>, republished |-> <<>>]
Out(client, r) ==
    [client |-> client, raised |-> r.raised, ret |-> r.ret, republished |-> r.republished]

\* the side-cars the model starts from: none, or one that was cut short
InitStores == {<<>>, [l \in {<<"s3", "mcp-data", Orders>>} |-> Truncated]}

Init ==
    /\ env = [S3_BUCKET |-> "mcp-data", AZURE_CONTAINER |-> "datasets"]
    /\ TEST_MODE = FALSE
    /\ objects \in Listings
    /\ store \in InitStores
    /\ now = 0
    /\ routed = [n \in Identifiers |-> {}]
    /\ last = NoCall
    /\ pc = "idle"
    /\ plan = NoPlan
    /\ results = <<>>
    /\ history = <<>>
    /\ dispatched = <<>>
    /\ merges = <<>>
    /\ outcome = NoOutcome
    /\ written = <<>>
    /\ pRaw = <<>>
    /\ pOut = NoOut
    /\ rw = [w \in Writers |-> Idle]
    /\ puts = <<>>
    /\ attempts = {}

request == <<pc, plan, results, history, dispatched, merges, outcome>>
fixed == <<env, TEST_MODE, objects, routed, pRaw, pOut, rw, puts>>

\* the clock advances between two calls
Tick ==
    /\ pc = "idle"
    /\ now < MaxTime
    /\ now' = now + 1
    /\ UNCHANGED <<fixed, request, store, last, written, attempts>>

\* a stored side-car is cut short behind the system's back
CorruptSidecar ==
    /\ pc = "idle"
    /\ \E l \in DOMAIN store :
         /\ ~store[l].truncated
         /\ store' = [store EXCEPT ![l] = Truncated]
    /\ written' = <<>>
    /\ last' = NoCall
    /\ UNCHANGED <<fixed, request, now, attempts>>

Targets == {None, Some(Orders), Some(Customers)}
\* the answering model's replies to a direct call
DirectReplies == {Some(GoodReply), Some(BareReply)}

\* client_s3.answer(question, target_path), called directly with one of
\* targets, while one of fails goes wrong
S3AskWith(targets, fails) ==
    /\ pc = "idle"
    /\ \E target \in targets, desc \in ScanIO, reply \in DirectReplies, fail \in fails :
         LET r == s3_answer(store, Question, target, IOF(desc, reply, fail), now)
         IN  /\ store' = r.store
             /\ written' = r.written
             /\ last' = Call("s3", target, r, BUCKET, objects.s3)
             /\ attempts' = attempts \cup r.attempted
    /\ UNCHANGED <<fixed, request, now>>

S3Ask == S3AskWith(Targets, {NoFail})

\* client_azure.answer(question, target_path), called directly with one of
\* targets, while one of fails goes wrong
AzAskWith(targets, fails) ==
    /\ pc = "idle"
    /\ \E target \in targets, desc \in ScanIO, reply \in DirectReplies, fail \in fails :
         LET r == az_answer(store, Question, target, IOF(desc, reply, fail), now)
         IN  /\ store' = r.store
             /\ written' = r.written
             /\ last' = Call("azure", target, r, AZ_CONTAINER, objects.azure)
             /\ attempts' = attempts \cup r.attempted
    /\ UNCHANGED <<fixed, request, now>>

AzAsk == AzAskWith(Targets, {NoFail})

\* client.answer, lines 160-181: the pre-scan of every listed file, while one
\* of fails goes wrong; a scan that raises ends the request
DiscoverWith(fails) ==
    /\ pc = "idle"
    /\ \E desc \in ScanIO, fail \in fails :
         LET d == discover(store, IOF(desc, None, fail), now)
         IN  /\ store' = d.store
             /\ written' = d.written
             /\ attempts' = attempts \cup d.attempted
             /\ last' = [NoCall EXCEPT !.client = "discover", !.scanned = d.scanned,
                                       !.raised = d.raised,
                                       !.corrupt = Corrupted(store, BUCKET, objects.s3)
                                                   \cup Corrupted(store, AZ_CONTAINER, objects.azure),
                                       !.pre = store, !.desc = desc, !.t = now]
             /\ IF d.raised THEN pc' = "done" /\ outcome' = Raised
                ELSE pc' = "plan" /\ outcome' = outcome
    /\ UNCHANGED <<fixed, now, plan, results, history, dispatched, merges>>

Discover == DiscoverWith({NoFail})

\* client.answer, lines 182-186: the planner's reply, and the empty plan
PlanReplies == {[json |-> FALSE, steps |-> None]} \cup {[json |-> TRUE, steps |-> None]}
               \cup {[json |-> TRUE, steps |-> Some(p)] : p \in Plans}
\* a variant of the plan stage that tests `steps is None` in place of `not steps`
PlanStage_absent_only ==
    /\ pc = "plan"
    /\ \E reply \in PlanReplies :
         /\ plan' = PlanOf(reply)
         /\ IF ~reply.json
            THEN pc' = "done" /\ outcome' = Raised
            ELSE IF reply.steps = None
            THEN pc' = "done" /\ outcome' = Returned(NoPlanMsg)
            ELSE IF PlanOf(reply).steps = <<>>
            THEN pc' = "done" /\ outcome' = Raised       \* results[0] of no results
            ELSE pc' = "execute" /\ outcome' = outcome
    /\ written' = <<>>
    /\ UNCHANGED <<fixed, now, last, store, results, history, dispatched, merges, attempts>>

\* a variant of the plan stage that asks the planner again where its plan has
\* no steps
PlanStage_retry_empty ==
    /\ pc = "plan"
    /\ \E reply \in PlanReplies :
         /\ plan' = PlanOf(reply)
         /\ IF ~reply.json
            THEN pc' = "done" /\ outcome' = Raised
            ELSE IF PlanOf(reply).steps = <<>>
            THEN IF plan = NoPlan THEN pc' = "plan" /\ outcome' = outcome
                 ELSE pc' = "done" /\ outcome' = Returned(NoPlanMsg)
            ELSE pc' = "execute" /\ outcome' = outcome
    /\ written' = <<>>
    /\ UNCHANGED <<fixed, now, last, store, results, history, dispatched, merges, attempts>>

PlanStageWith(replies) ==
    /\ pc = "plan"
    /\ \E reply \in replies :
         /\ plan' = PlanOf(reply)
         /\ IF ~reply.json
            THEN pc' = "done" /\ outcome' = Raised
            ELSE IF PlanOf(reply).steps = <<>>
            THEN pc' = "done" /\ outcome' = Returned(NoPlanMsg)
            ELSE pc' = "execute" /\ outcome' = outcome
    /\ written' = <<>>
    /\ UNCHANGED <<fixed, now, last, store, results, history, dispatched, merges, attempts>>

PlanStage == PlanStageWith(PlanReplies)

\* a variant of the fast path that returns results[0][0], the source tag
AfterExecute_tag(rs) ==
    IF Len(rs) = 1
    THEN pc' = "done" /\ outcome' = Returned(<<rs[1].cloud>>)
    ELSE pc' = "merge" /\ outcome' = outcome

\* where answer goes once _execute_plan has returned rs
AfterExecute(rs) ==
    IF Len(rs) = 1
    THEN pc' = "done" /\ outcome' = Returned(rs[1].text)
    ELSE pc' = "merge" /\ outcome' = outcome

\* a variant of _execute_plan that returns at a step it skips
ExecStep_skip_aborts ==
    /\ pc = "execute"
    /\ LET i == Len(results) + 1
           step == plan.steps[i]
           subq == augment(step.sub_question, history)
       IN  IF Skipped(step)
           THEN LET rs == Append(results, [cloud |-> "error", text |-> SkippedMsg \o subq])
                IN  /\ results' = rs
                    /\ pc' = "done" /\ outcome' = Returned(rs[i].text)
                    /\ written' = <<>>
                    /\ UNCHANGED <<store, history, dispatched, attempts>>
           ELSE \E reply \in {None, Some(ReplyFor(i))} :
                LET desc == last.desc   \* the describing model replies as it did in discovery
                    q == enhanced_prompt(step.dataset[1], step.cloud[1], subq)
                    r == IF ClientOf(step) = "s3"
                         THEN s3_answer(store, q, step.dataset, IO(desc, reply), now)
                         ELSE az_answer(store, q, step.dataset, IO(desc, reply), now)
                    rs == Append(results, [cloud |-> step.cloud[1], text |-> r.ret])
                IN  /\ store' = r.store
                    /\ written' = r.written
                    /\ attempts' = attempts \cup r.attempted
                    /\ dispatched' = Append(dispatched,
                          [step |-> i, client |-> ClientOf(step), question |-> q,
                           target |-> step.dataset, prompt |-> r.prompt,
                           raised |-> r.raised])
                    /\ IF r.raised
                       THEN pc' = "done" /\ outcome' = Raised /\ UNCHANGED <<results, history>>
                       ELSE /\ results' = rs
                            /\ history' = Append(history, r.ret)
                            /\ IF i = Len(plan.steps) THEN AfterExecute(rs)
                               ELSE pc' = pc /\ outcome' = outcome
    /\ UNCHANGED <<fixed, now, last, plan, merges>>

\* client._execute_plan: one turn of its loop
ExecStep ==
    /\ pc = "execute"
    /\ LET i == Len(results) + 1
           step == plan.steps[i]
           subq == augment(step.sub_question, history)
       IN  IF Skipped(step)
           THEN LET rs == Append(results, [cloud |-> "error", text |-> SkippedMsg \o subq])
                IN  /\ results' = rs
                    /\ IF i = Len(plan.steps) THEN AfterExecute(rs) ELSE pc' = pc /\ outcome' = outcome
                    /\ written' = <<>>
                    /\ UNCHANGED <<store, history, dispatched, attempts>>
           ELSE \E reply \in {None, Some(ReplyFor(i))} :
                LET desc == last.desc   \* the describing model replies as it did in discovery
                    q == enhanced_prompt(step.dataset[1], step.cloud[1], subq)
                    r == IF ClientOf(step) = "s3"
                         THEN s3_answer(store, q, step.dataset, IO(desc, reply), now)
                         ELSE az_answer(store, q, step.dataset, IO(desc, reply), now)
                    rs == Append(results, [cloud |-> step.cloud[1], text |-> r.ret])
                IN  /\ store' = r.store
                    /\ written' = r.written
                    /\ attempts' = attempts \cup r.attempted
                    /\ dispatched' = Append(dispatched,
                          [step |-> i, client |-> ClientOf(step), question |-> q,
                           target |-> step.dataset, prompt |-> r.prompt,
                           raised |-> r.raised])
                    /\ IF r.raised
                       THEN pc' = "done" /\ outcome' = Raised /\ UNCHANGED <<results, history>>
                       ELSE /\ results' = rs
                            /\ history' = Append(history, r.ret)
                            /\ IF i = Len(plan.steps) THEN AfterExecute(rs)
                               ELSE pc' = pc /\ outcome' = outcome
    /\ UNCHANGED <<fixed, now, last, plan, merges>>

\* a variant of the merge loop that never updates prev_cloud
MergeStage_stale_tag ==
    /\ pc = "merge"
    /\ \E ok \in BOOLEAN :
         LET k == Len(merges)
             out == MergeFor(k + 1)
             merged == IF k = 0 THEN results[1].text ELSE merges[k].out
             prev_cloud == results[1].cloud
             call == [prev_ans |-> merged, this_ans |-> results[k + 2].text,
                      prev_cloud |-> prev_cloud, this_cloud |-> results[k + 2].cloud,
                      out |-> IF ok THEN Strip(out) ELSE <<>>]
         IN  /\ merges' = Append(merges, call)
             /\ IF ~ok THEN pc' = "done" /\ outcome' = Raised
                ELSE IF k + 2 = Len(results) THEN pc' = "done" /\ outcome' = Returned(call.out)
                ELSE pc' = pc /\ outcome' = outcome
    /\ written' = <<>>
    /\ UNCHANGED <<fixed, now, last, store, plan, results, history, dispatched, attempts>>

\* client.answer, lines 200-205: one turn of the merge loop
MergeStage ==
    /\ pc = "merge"
    /\ \E ok \in BOOLEAN :
         LET k == Len(merges)
             out == MergeFor(k + 1)
             merged == IF k = 0 THEN results[1].text ELSE merges[k].out
             prev_cloud == results[k + 1].cloud
             call == [prev_ans |-> merged, this_ans |-> results[k + 2].text,
                      prev_cloud |-> prev_cloud, this_cloud |-> results[k + 2].cloud,
                      out |-> IF ok THEN Strip(out) ELSE <<>>]
         IN  /\ merges' = Append(merges, call)
             /\ IF ~ok THEN pc' = "done" /\ outcome' = Raised
                ELSE IF k + 2 = Len(results) THEN pc' = "done" /\ outcome' = Returned(call.out)
                ELSE pc' = pc /\ outcome' = outcome
    /\ written' = <<>>
    /\ UNCHANGED <<fixed, now, last, store, plan, results, history, dispatched, attempts>>

\* the caller takes the outcome; the next question may be asked
Finish ==
    /\ pc = "done"
    /\ pc' = "idle"
    /\ plan' = NoPlan /\ results' = <<>> /\ history' = <<>>
    /\ dispatched' = <<>> /\ merges' = <<>> /\ outcome' = NoOutcome
    /\ written' = <<>>
    /\ last' = NoCall
    /\ UNCHANGED <<fixed, now, store, attempts>>

\* the orchestrator (client.py) over the two stores
Next ==
    \/ Discover
    \/ PlanStage
    \/ ExecStep
    \/ MergeStage
    \/ Finish

Spec == Init /\ [][Next]_vars

\* the per-source clients (client_s3.py, client_azure.py) run on their own
NextClient ==
    \/ Tick
    \/ CorruptSidecar
    \/ S3Ask
    \/ AzAsk

SpecClient == Init /\ [][NextClient]_vars

\* discovery and prescan while the backend or the model fails on one object:
\* requests whose planner finds nothing to do, and direct per-source calls
\* without a target_path
NoSteps == {[json |-> TRUE, steps |-> None], [json |-> TRUE, steps |-> Some(<<>>)]}
DiscoverFaulty == DiscoverWith(Fails)
PlanNothing == PlanStageWith(NoSteps)
S3AskFaulty == S3AskWith({None}, Fails)
AzAskFaulty == AzAskWith({None}, Fails)

NextFaults ==
    \/ DiscoverFaulty
    \/ PlanNothing
    \/ Finish
    \/ S3AskFaulty
    \/ AzAskFaulty

SpecFaults == Init /\ [][NextFaults]_vars

\* ------------------------------------------------------------- reply parsing
\* the lines a model reply is made of
ParseLines ==
    { <<"DESCRIPTIONS">>, <<"SELECTED_FILES">>, <<"ANSWER">>,
      <<"orders.csv", COLON, "order", "lines">>,
      <<"customers.csv", COLON, "ANSWER", "sheet">>,
      <<"42">>,
      <<"see", "descriptions", COLON, "below">> }
Replies == UNION { {Join(ls, <<NL>>) : ls \in [1..n -> ParseLines]} : n \in 1..MaxLines }

\* one reply of the answering model, and a store without side-cars
InitParse ==
    /\ env = [S3_BUCKET |-> "mcp-data", AZURE_CONTAINER |-> "datasets"]
    /\ TEST_MODE = FALSE
    /\ objects = [s3 |-> <<Orders>>, azure |-> <<Customers>>]
    /\ store = <<>>
    /\ now = 0
    /\ routed = [n \in Identifiers |-> {}]
    /\ last = NoCall
    /\ pc = "idle"
    /\ plan = NoPlan
    /\ results = <<>>
    /\ history = <<>>
    /\ dispatched = <<>>
    /\ merges = <<>>
    /\ outcome = NoOutcome
    /\ written = <<>>
    /\ pRaw \in Replies
    /\ pOut = NoOut
    /\ rw = [w \in Writers |-> Idle]
    /\ puts = <<>>
    /\ attempts = {}

\* client_s3.answer(question) where the answering model replies pRaw
ParseS3 ==
    /\ pOut = NoOut
    /\ \E desc \in ScanIO :
         LET r == s3_answer(store, Question, None, IO(desc, Some(pRaw)), now)
         IN  /\ store' = r.store
             /\ written' = r.written
             /\ pOut' = Out("s3", r)
             /\ attempts' = attempts \cup r.attempted
    /\ UNCHANGED <<env, TEST_MODE, objects, routed, pRaw, request, now, last, rw, puts>>

\* client_azure.answer(question) where the answering model replies pRaw
ParseAzure ==
    /\ pOut = NoOut
    /\ \E desc \in ScanIO :
         LET r == az_answer(store, Question, None, IO(desc, Some(pRaw)), now)
         IN  /\ store' = r.store
             /\ written' = r.written
             /\ pOut' = Out("azure", r)
             /\ attempts' = attempts \cup r.attempted
    /\ UNCHANGED <<env, TEST_MODE, objects, routed, pRaw, request, now, last, rw, puts>>

NextParse ==
    \/ ParseS3
    \/ ParseAzure

SpecParse == InitParse /\ [][NextParse]_vars

\* ------------------------------------------------------------- the two clients side by side
\* a bucket and a container that list the same objects, one reply of the
\* answering model, and a store without side-cars
TwinListings == {<<Orders>>, <<Customers, Orders>>}
InitTwins ==
    /\ env = [S3_BUCKET |-> "mcp-data", AZURE_CONTAINER |-> "datasets"]
    /\ TEST_MODE = FALSE
    /\ \E files \in TwinListings : objects = [s3 |-> files, azure |-> files]
    /\ store = <<>>
    /\ now = 0
    /\ routed = [n \in Identifiers |-> {}]
    /\ last = NoCall
    /\ pc = "idle"
    /\ plan = NoPlan
    /\ results = <<>>
    /\ history = <<>>
    /\ dispatched = <<>>
    /\ merges = <<>>
    /\ outcome = NoOutcome
    /\ written = <<>>
    /\ pRaw \in Replies
    /\ pOut = NoOut
    /\ rw = [w \in Writers |-> Idle]
    /\ puts = <<>>
    /\ attempts = {}

\* what one of two calls side by side did
Side(r) == [raised |-> r.raised, ret |-> r.ret, written |-> r.written,
            republished |-> r.republished]

\* client_s3.answer(question) and client_azure.answer(question), each on its
\* own backend, with the same replies of the describing and the answering model
AskBoth ==
    /\ pOut = NoOut
    /\ \E desc \in ScanIO :
         LET a == s3_answer(store, Question, None, IO(desc, Some(pRaw)), now)
             b == az_answer(a.store, Question, None, IO(desc, Some(pRaw)), now)
         IN  /\ store' = b.store
             /\ written' = a.written \o b.written
             /\ attempts' = attempts \cup a.attempted \cup b.attempted
             /\ pOut' = [client |-> "both", s3 |-> Side(a), azure |-> Side(b)]
    /\ UNCHANGED <<env, TEST_MODE, objects, routed, pRaw, request, now, last, rw, puts>>

NextTwins == AskBoth

SpecTwins == InitTwins /\ [][NextTwins]_vars

\* ------------------------------------------------------------- the store's API
\* a configuration, and a store without side-cars
InitStore ==
    /\ env \in Configs
    /\ TEST_MODE \in BOOLEAN
    /\ objects = [s3 |-> <<Orders>>, azure |-> <<Customers>>]
    /\ store = <<>>
    /\ now = 0
    /\ routed = [n \in Identifiers |-> {}]
    /\ last = NoCall
    /\ pc = "idle"
    /\ plan = NoPlan
    /\ results = <<>>
    /\ history = <<>>
    /\ dispatched = <<>>
    /\ merges = <<>>
    /\ outcome = NoOutcome
    /\ written = <<>>
    /\ pRaw = <<>>
    /\ pOut = NoOut
    /\ rw = [w \in Writers |-> Idle]
    /\ puts = <<>>
    /\ attempts = {}

\* the routing decisions seen, with those for the identifiers ids added
Route(ids) == [n \in Identifiers |-> IF n \in ids THEN routed[n] \cup {Backend(n)} ELSE routed[n]]
apart == <<env, TEST_MODE, objects, now, last, request, pRaw, pOut, rw, puts, attempts>>

\* SidecarStore.write_meta(meta): _save routes the leading path segment
StorePut ==
    /\ \E id \in Identifiers :
         LET meta == FileMeta(<<id, Orders>>, "s3", Orders, LongDesc, "text/csv", ObjSize(Orders), now)
         IN  /\ store' = write_meta(store, meta)
             /\ written' = <<meta>>
             /\ routed' = Route({id})
    /\ UNCHANGED apart

\* SidecarStore.get_meta(path): _load routes unless TEST_MODE is on
StoreGet ==
    /\ \E id \in Identifiers :
         routed' = IF TEST_MODE THEN routed ELSE Route({id})
    /\ written' = <<>>
    /\ UNCHANGED <<apart, store>>

\* SidecarStore.read_all(): _load routes every key that _iter_keys yields
StoreList ==
    /\ routed' = IF TEST_MODE THEN routed ELSE Route({k[1] : k \in iter_keys(store)})
    /\ written' = <<>>
    /\ UNCHANGED <<apart, store>>

\* SidecarStore._is_s3_bucket(name), called on its own
StoreRoute ==
    /\ \E id \in Identifiers : routed' = Route({id})
    /\ written' = <<>>
    /\ UNCHANGED <<apart, store>>

NextStore ==
    \/ StorePut
    \/ StoreGet
    \/ StoreList
    \/ StoreRoute

SpecStore == InitStore /\ [][NextStore]_vars

\* ------------------------------------------------------------- concurrent requests
\* two requests started through the UI (streamlit_app.ask_llm hands each to an
\* executor thread), both at the side-car of one listed file
InitWriters ==
    /\ env = [S3_BUCKET |-> "mcp-data", AZURE_CONTAINER |-> "datasets"]
    /\ TEST_MODE = FALSE
    /\ objects = [s3 |-> <<Orders>>, azure |-> <<Customers>>]
    /\ store = <<>>
    /\ now = 0
    /\ routed = [n \in Identifiers |-> {}]
    /\ last = NoCall
    /\ pc = "idle"
    /\ plan = NoPlan
    /\ results = <<>>
    /\ history = <<>>
    /\ dispatched = <<>>
    /\ merges = <<>>
    /\ outcome = NoOutcome
    /\ written = <<>>
    /\ pRaw = <<>>
    /\ pOut = NoOut
    /\ rw = [w \in Writers |-> Idle]
    /\ puts = <<>>
    /\ attempts = {}

SharedPath == <<BUCKET, Orders>>
\* the description the answering model of request w gives the file
DescOf(w) == <<"rewritten", "by", w>>
aside == <<env, TEST_MODE, objects, now, routed, last, request, pRaw, pOut>>

\* the get of a get-then-write: the discovery loop of client.answer finds no
\* record and goes on to scan_object, or the DESCRIPTIONS loop of
\* client_s3.answer reads the record it is about to rewrite
WGet(w) ==
    /\ rw[w].pc = "idle"
    /\ Len(puts) + Cardinality({v \in Writers : rw[v].pc # "idle"}) < MaxPuts
    /\ \E op \in {"scan", "republish"} :
         LET existing == get_meta(store, SharedPath)
             meta == IF op = "scan"
                     THEN FileMeta(SharedPath, "s3", basename(SharedPath), LongDesc,
                                   ObjMime(Orders), ObjSize(Orders), now)
                     ELSE IF existing # None
                     THEN [existing[1] EXCEPT !.description = DescOf(w)]
                     ELSE FileMeta(SharedPath, "s3", Orders, DescOf(w),
                                   "application/octet-stream", 0, now)
         IN  /\ op = "scan" => existing = None
             /\ attempts' = IF op = "scan" THEN attempts \cup {SharedPath} ELSE attempts
             /\ rw' = [rw EXCEPT ![w] = [pc |-> "got", op |-> op, existing |-> existing,
                                         meta |-> Some(meta), data |-> None]]
    /\ UNCHANGED <<aside, store, written, puts>>

\* write_meta, up to its call of _save: the record is encoded
WEncode(w) ==
    /\ rw[w].pc = "got"
    /\ rw' = [rw EXCEPT ![w].pc = "encoded", ![w].data = Some(Bytes(to_json(rw[w].meta[1])))]
    /\ UNCHANGED <<aside, store, written, puts, attempts>>

\* _save: one put_object / upload_blob(overwrite=True) of the encoded record
WPut(w) ==
    /\ rw[w].pc = "encoded"
    /\ store' = save(store, rw[w].meta[1].path, rw[w].data[1])
    /\ written' = <<rw[w].meta[1]>>
    /\ puts' = Append(puts, [w |-> w, meta |-> rw[w].meta[1],
                             during |-> \E v \in Writers \ {w} : rw[v].pc = "encoded",
                             stale |-> get_meta(store, SharedPath) # rw[w].existing])
    /\ rw' = [rw EXCEPT ![w] = Idle]
    /\ UNCHANGED <<aside, attempts>>

NextWriters ==
    \/ \E w \in Writers : WGet(w)
    \/ \E w \in Writers : WEncode(w)
    \/ \E w \in Writers : WPut(w)

SpecWriters == InitWriters /\ [][NextWriters]_vars

\* ------------------------------------------------------------- the claims
\* the texts of segs occur in t one after the other, from position `from` on
RECURSIVE InOrder(_, _, _)
InOrder(t, segs, from) ==
    IF segs = <<>> THEN TRUE
    ELSE LET idx == {i \in from..Len(t) : OccursAt(t, Head(segs), i)}
         IN  IF idx = {} THEN FALSE
             ELSE InOrder(t, Tail(segs), (CHOOSE i \in idx : \A j \in idx : i <= j) + Len(Head(segs)))

\* C1: once the planner has returned a plan whose steps are empty or absent,
\* the request is over with the fixed message, and it has made no per-source
\* answer call and no merge call.
C1_EmptyPlanShortCircuit ==
    (plan.reply \in {"absent", "steps"} /\ plan.steps = <<>>)
        => /\ pc = "done"
           /\ outcome = Returned(NoPlanMsg)
           /\ dispatched = <<>>
           /\ merges = <<>>
           /\ results = <<>>

C1_Witness ==
    /\ plan.reply = "steps" /\ plan.steps = <<>>
    /\ pc = "done" /\ outcome = Returned(NoPlanMsg)

\* C2: a request whose plan has exactly one step never reaches the merge stage
\* and makes no merge call; when _execute_plan has produced its one result the
\* request returns that result's text as it stands.
C2_SingleStepFastPath ==
    (plan.reply = "steps" /\ Len(plan.steps) = 1)
        => /\ merges = <<>>
           /\ pc # "merge"
           /\ (results # <<>> => pc = "done" /\ outcome = Returned(results[1].text))
           /\ (pc = "done" /\ results = <<>> => outcome = Raised)

C2_Witness ==
    /\ plan.reply = "steps" /\ Len(plan.steps) = 1
    /\ pc = "done" /\ Len(dispatched) = 1 /\ Len(results) = 1
    /\ outcome.kind = "returned" /\ outcome.text # <<>>

\* C3 as claimed: the question dispatched for step N holds the result text of
\* every step 1..N-1 of the plan, in plan order, before step N's sub-question.
C3_EveryPriorStep ==
    \A k \in 1..Len(dispatched) :
        LET d == dispatched[k]
        IN  InOrder(d.question,
                    [j \in 1..(d.step - 1) |-> results[j].text]
                        \o <<plan.steps[d.step].sub_question>>, 1)

\* C3, amended: the question dispatched for step N holds the answer of every
\* prior step that was dispatched, in plan order, before step N's sub-question
\* (a step skipped for a missing cloud or dataset contributes no text).
C3_EveryPriorDispatchedStep ==
    \A k \in 1..Len(dispatched) :
        LET d == dispatched[k]
        IN  InOrder(d.question,
                    [m \in 1..(k - 1) |-> results[dispatched[m].step].text]
                        \o <<plan.steps[d.step].sub_question>>, 1)

\* a step dispatched after a dispatched step and a skipped one
C3_Witness ==
    /\ Len(results) = 3
    /\ Len(dispatched) = 2
    /\ results[2].cloud = "error"
    /\ dispatched[2].step = 3
    /\ results[1].text # <<>>
\* the listing a per-source client works on
Listed(client) == IF client = "s3" THEN objects.s3 ELSE objects.azure
\* a store without the locations locs
Without(st, locs) == [l \in DOMAIN st \ locs |-> st[l]]

\* C4: a listed file that had a record with a non-empty description before a run
\* of successive calls of one per-source answer routine is not scanned by any
\* call of the run, and keeps its last_scanned unless a DESCRIPTIONS section of
\* a reply named it
C4_CachedFileNotRescanned ==
    \A h \in last.had :
        /\ h.path \notin last.run.scanned
        /\ h.path \notin last.run.republished =>
              /\ get_meta(store, h.path) # None
              /\ get_meta(store, h.path)[1].last_scanned = h.last_scanned

\* two successive calls, the second one a second or more after the record of a
\* file was stamped, and no reply has named that file
C4_Witness ==
    /\ last.n = 2
    /\ \E h \in last.had :
         /\ h.path \notin last.run.republished
         /\ h.last_scanned < (now \div TicksPerSec) * TicksPerSec

C6_RoundTrip == \A i \in DOMAIN written : from_json(to_json(written[i])) = written[i]

\* C9: a call with a target_path that is not listed returns the sentinel, does
\* not raise, sends no prompt to the model and republishes nothing; a call
\* with a listed target_path sends a prompt with that one file only
C9_TargetFilter ==
    (last.client \in {"s3", "azure"} /\ Targeted(last.target)) =>
        IF last.target[1] \notin Range(Listed(last.client))
        THEN /\ ~last.raised
             /\ last.ret = NoData(last.target[1])
             /\ last.prompt = None
             /\ last.republished = <<>>
        ELSE last.prompt # None =>
                 [i \in DOMAIN last.prompt[1].docs |-> last.prompt[1].docs[i].path] = <<last.target[1]>>

\* the lines of the reply, and the places of its header lines
Lines == SplitLines(pRaw)
LinesAt(h) == {i \in 1..Len(Lines) : Lines[i] = <<h>>}
\* the `path: description` lines among ls, as records of path and description
RECURSIVE Entries(_)
Entries(ls) ==
    IF ls = <<>> THEN <<>>
    ELSE (IF KV(Head(ls)) # None THEN <<KV(Head(ls))[1]>> ELSE <<>>) \o Entries(Tail(ls))

\* C7: for a reply with one DESCRIPTIONS header line, one ANSWER header line
\* after it and no SELECTED_FILES line, the answer routine does not raise,
\* republishes the `path: description` lines between the two headers and no
\* other line, and returns the text after the ANSWER header line
C7_NoSelectedFiles ==
    (/\ pOut.client # "none"
     /\ Cardinality(LinesAt("DESCRIPTIONS")) = 1
     /\ Cardinality(LinesAt("ANSWER")) = 1
     /\ LinesAt("SELECTED_FILES") = {}
     /\ \A i \in LinesAt("DESCRIPTIONS"), j \in LinesAt("ANSWER") : i < j)
    => LET i == CHOOSE k \in LinesAt("DESCRIPTIONS") : TRUE
           j == CHOOSE k \in LinesAt("ANSWER") : TRUE
           body == Entries(SubSeq(Lines, i + 1, j - 1))
           container == IF pOut.client = "s3" THEN BUCKET ELSE AZ_CONTAINER
       IN  /\ ~pOut.raised
           /\ pOut.republished = [k \in DOMAIN body |-> <<container, body[k].p>>]
           /\ \A k \in DOMAIN body :
                 /\ get_meta(store, <<container, body[k].p>>) # None
                 /\ \E m \in DOMAIN body :
                       /\ body[m].p = body[k].p
                       /\ get_meta(store, <<container, body[k].p>>)[1].description = body[m].desc
           /\ pOut.ret = Strip(Join(SubSeq(Lines, j + 1, Len(Lines)), <<NL>>))

\* C8: under one configuration, every routing decision made for an identifier
\* by any sequence of put, get, list and route calls is the same backend
C8_RoutingDeterminism ==
    \A n \in Identifiers : Cardinality(routed[n]) <= 1 /\ routed[n] \subseteq {Backend(n)}

\* an identifier that no list names has been routed before and after side-cars
\* were saved on both backends
C8_Witness ==
    /\ routed["archive"] # {}
    /\ routed["files.corp"] # {}
    /\ \E l \in DOMAIN store : l[1] = "azure"
    /\ \E l \in DOMAIN store : l[1] = "s3"

\* C10: the answer routine returns the trimmed text after the last ANSWER
\* marker of the reply, and the whole reply where it has no ANSWER marker
C10_FinalAnswerMarker ==
    (pOut.client # "none" /\ ~pOut.raised) =>
        pOut.ret = IF LastIn(pRaw, {"ANSWER"}) # 0
                   THEN Strip(After(pRaw, LastIn(pRaw, {"ANSWER"})))
                   ELSE pRaw

\* C11: a request that is over has returned a text to its caller, it has not
\* raised
C11_AlwaysReturnsText == pc = "done" => outcome.kind = "returned"

\* C12: a step whose per-source call raised has an inline error entry in the
\* results, and once execution is over every step of the plan has its result
C12_FailedStepInline ==
    /\ \A k \in DOMAIN dispatched :
          dispatched[k].raised =>
              /\ Len(results) >= dispatched[k].step
              /\ results[dispatched[k].step].cloud = "error"
    /\ (plan.reply = "steps" /\ plan.steps # <<>> /\ pc \in {"merge", "done"}) =>
          Len(results) = Len(plan.steps)

\* the step names a dataset and a source that are no pair of the allow-list
Unlisted(step) ==
    /\ step.dataset # None /\ step.cloud # None
    /\ <<step.dataset[1], lower(step.cloud[1])>> \notin AllowList

\* C13: no step that names an unlisted pair is dispatched, and a plan with
\* such a step ends the request at once as a planning failure
C13_OnlyListedPairs ==
    /\ \A k \in DOMAIN dispatched : ~Unlisted(plan.steps[dispatched[k].step])
    /\ (\E i \in DOMAIN plan.steps : Unlisted(plan.steps[i])) =>
          /\ dispatched = <<>>
          /\ pc = "done" /\ outcome = Raised

\* C14: with TEST_MODE on, no side-car is on a network backend, and the record
\* that write_meta was just given is what get_meta returns for its path and is
\* among the records of read_all
C14_OfflineMode ==
    TEST_MODE =>
        /\ \A l \in DOMAIN store : l[1] = "local"
        /\ written # <<>> =>
              /\ get_meta(store, written[1].path) = Some(written[1])
              /\ written[1] \in read_all(store)

\* C15: after any interleaving of write_meta calls on one path the store
\* holds one side-car for the path, and get_meta returns the record of the
\* write_meta call that completed last, whole
C15_LastWriterWins ==
    puts # <<>> =>
        /\ Cardinality({l \in DOMAIN store : <<l[2], l[3]>> = SharedPath}) = 1
        /\ get_meta(store, SharedPath) = Some(puts[Len(puts)].meta)

\* two write_meta calls of different requests with different records have
\* overlapped, and the one whose put came first is not the one that is read
C15_Witness ==
    \E i \in DOMAIN puts :
        /\ i < Len(puts)
        /\ puts[i].during
        /\ puts[i].w # puts[i + 1].w
        /\ puts[i].meta # puts[i + 1].meta
        /\ get_meta(store, SharedPath) = Some(puts[i + 1].meta)

\* C16: the get-then-write sequences of two requests on one side-car never
\* interleave, and no request writes a record built from a read that another
\* request's write has overtaken
C16_NoInterleaving ==
    /\ ~(\A w \in Writers : rw[w].pc # "idle")
    /\ \A i \in DOMAIN puts : ~puts[i].stale

\* the tag a result entry carries: the declared source of a dispatched step,
\* "error" for a step without a usable source or dataset
Unusable(step) ==
    \/ step.cloud = None \/ step.cloud[1] = ""
    \/ step.dataset = None \/ step.dataset[1] = <<>>
EntryTag(i) == IF Unusable(plan.steps[i]) THEN "error" ELSE plan.steps[i].cloud[1]
DeclaredSource(i) == plan.steps[i].cloud[1]

\* the merge calls made so far are a left fold over the results: call 1 gets
\* results 1 and 2, call i the output of call i-1 and result i+1, the
\* fragments of call i tagged Tag(i) and Tag(i+1); there are never more than
\* k-1 calls, and a request that returns after k >= 2 results has made k-1
\* calls and returns the output of the last
LeftFold(Tag(_)) ==
    /\ merges # <<>> => Len(results) = Len(plan.steps) /\ Len(merges) <= Len(results) - 1
    /\ \A i \in DOMAIN merges :
          /\ merges[i].prev_ans = IF i = 1 THEN results[1].text ELSE merges[i - 1].out
          /\ merges[i].this_ans = results[i + 1].text
          /\ merges[i].prev_cloud = Tag(i)
          /\ merges[i].this_cloud = Tag(i + 1)
    /\ (pc = "done" /\ Len(results) >= 2 /\ outcome.kind = "returned") =>
          /\ Len(merges) = Len(results) - 1
          /\ outcome.text = merges[Len(merges)].out

C18_SkippedStepInline ==
    /\ \A k \in DOMAIN dispatched : ~Unusable(plan.steps[dispatched[k].step])
    /\ \A i \in DOMAIN results :
          Unusable(plan.steps[i]) =>
              /\ results[i].cloud = "error"
              /\ SubSeq(results[i].text, 1, Len(SkippedMsg)) = SkippedMsg
    /\ (pc \in {"merge", "done"} /\ Len(results) < Len(plan.steps)) =>
          /\ dispatched # <<>>
          /\ dispatched[Len(dispatched)].raised
          /\ dispatched[Len(dispatched)].step = Len(results) + 1

\* a step was skipped and the step after it was dispatched and has its result
C18_Witness ==
    \E i \in DOMAIN results :
        /\ Unusable(plan.steps[i])
        /\ i < Len(results)
        /\ results[i + 1].cloud # "error"
        /\ \E k \in DOMAIN dispatched : dispatched[k].step = i + 1

\* C19: a dispatched step goes to the S3 client only if it declares s3 and to
\* the Azure client only if it declares azure, with its dataset as target_path
C19_DispatchMatchesSource ==
    \A k \in DOMAIN dispatched :
        LET step == plan.steps[dispatched[k].step]
        IN  /\ dispatched[k].target = step.dataset
            /\ dispatched[k].client = "s3" => lower(step.cloud[1]) = "s3"
            /\ dispatched[k].client = "azure" => lower(step.cloud[1]) = "azure"

\* C20: when the planner is called, every listed object has a record in the
\* store
C20_RecordForEveryListedObject ==
    pc = "plan" =>
        /\ \A i \in DOMAIN objects.s3 : get_meta(store, <<BUCKET, objects.s3[i]>>) # None
        /\ \A i \in DOMAIN objects.azure : get_meta(store, <<AZ_CONTAINER, objects.azure[i]>>) # None

\* the listed paths of both backends
ListedPaths ==
    {<<BUCKET, objects.s3[i]>> : i \in DOMAIN objects.s3}
    \cup {<<AZ_CONTAINER, objects.azure[i]>> : i \in DOMAIN objects.azure}

\* C21: whatever goes wrong on one object, a discovery pass scans every listed
\* file that has no record and the request goes on to planning, and the
\* prescan of a per-source call does not raise
C21_FailureCaughtLocally ==
    /\ last.client = "discover" =>
          /\ ~last.raised
          /\ \A p \in ListedPaths : get_meta(last.pre, p) = None => p \in Range(last.scanned)
          /\ pc \in {"plan", "done"}
          /\ pc = "done" => outcome.kind = "returned"
    /\ last.client \in {"s3", "azure"} => ~last.raised

\* C22: an S3 answer call does not raise where auto_describe fails on a listed
\* file without a record: the file is handed to scan_object and the call goes on
C22_DescriberFailureFallsBack ==
    last.client = "s3" =>
        /\ ~last.raised
        /\ \A i \in DOMAIN objects.s3 :
              auto_describe(objects.s3[i]).raised =>
                  \/ <<BUCKET, objects.s3[i]>> \in Range(last.scanned)
                  \/ get_meta(store, <<BUCKET, objects.s3[i]>>) # None

\* the place of a stage in DISCOVER (entered from idle), PLAN, EXECUTE, MERGE, DONE
Rank(p) == CASE p = "idle" -> 0 [] p = "plan" -> 1 [] p = "execute" -> 2
             [] p = "merge" -> 3 [] p = "done" -> 4

\* what each stage of a request has and has not done yet
StagesInOrder ==
    /\ pc \in {"idle", "plan"} =>
          plan = NoPlan /\ results = <<>> /\ dispatched = <<>> /\ merges = <<>>
    /\ pc = "plan" => last.client = "discover"
    /\ pc \in {"execute", "merge"} => plan.reply = "steps" /\ plan.steps # <<>>
    /\ pc = "execute" => merges = <<>> /\ Len(results) < Len(plan.steps)
    /\ merges # <<>> => Len(results) = Len(plan.steps)
    /\ \A k \in DOMAIN dispatched :
          /\ k < Len(dispatched) =>
                /\ dispatched[k].step < dispatched[k + 1].step
                /\ ~dispatched[k].raised
          /\ ~dispatched[k].raised => Len(results) >= dispatched[k].step
          /\ dispatched[k].raised => pc = "done" /\ merges = <<>>

\* what one step of a request may do
StageStep ==
    /\ pc' # pc => Rank(pc') > Rank(pc) \/ (pc = "done" /\ pc' = "idle")
    /\ last' # last => pc = "idle" \/ (pc = "done" /\ last' = NoCall)
    /\ plan' # plan => (pc = "plan" /\ plan = NoPlan) \/ (pc = "done" /\ plan' = NoPlan)
    /\ dispatched' # dispatched =>
          \/ pc = "execute" /\ Len(dispatched') = Len(dispatched) + 1
          \/ pc = "done" /\ dispatched' = <<>>
    /\ merges' # merges =>
          \/ pc = "merge" /\ Len(merges') = Len(merges) + 1
          \/ pc = "done" /\ merges' = <<>>

\* C23: the stages of a request occur in the order DISCOVER, PLAN, EXECUTE,
\* MERGE, DONE and none is entered again: the discovery scans precede the one
\* planner call, every dispatch follows it and precedes every merge call, and
\* step i+1 is dispatched only when step i has returned
C23_StagesInOrder == []StagesInOrder /\ [][StageStep]_vars

\* a request is over that scanned in discovery, dispatched two steps and merged
C23_Witness ==
    /\ pc = "done" /\ outcome.kind = "returned"
    /\ last.client = "discover" /\ last.scanned # <<>>
    /\ Len(dispatched) >= 2
    /\ merges # <<>>

\* C24: every path that has a record in the store has been the subject of a
\* description attempt (auto_describe, or the describing model of scan_object)
C24_RecordOnlyAfterAttempt ==
    \A l \in DOMAIN store :
        get_meta(store, <<l[2], l[3]>>) # None => <<l[2], l[3]>> \in attempts

\* the description of the record at location l of st, None where there is no
\* side-car or one that does not parse
DescAt(st, l) ==
    IF l \in DOMAIN st /\ ~st[l].truncated THEN Some(st[l].doc.description) ELSE None

\* C25: a step that gives a record a description it did not have leaves the
\* record with the time of that step, to the second, as its last_scanned
C25_StampFollowsDescription ==
    [][\A l \in DOMAIN store' :
          (~store'[l].truncated /\ DescAt(store', l) # DescAt(store, l))
              => store'[l].doc.last_scanned = ISO_FMT(now)]_vars

\* the `path: description` lines of the reply between its first DESCRIPTIONS
\* header line and the next SELECTED_FILES or ANSWER header line; none where no
\* line is the DESCRIPTIONS header
SectionBody ==
    IF LinesAt("DESCRIPTIONS") = {} THEN <<>>
    ELSE LET i == CHOOSE k \in LinesAt("DESCRIPTIONS") : \A m \in LinesAt("DESCRIPTIONS") : k <= m
             ends == {k \in (i + 1)..Len(Lines) : Lines[k] \in {<<"SELECTED_FILES">>, <<"ANSWER">>}}
             j == IF ends = {} THEN Len(Lines) + 1 ELSE CHOOSE k \in ends : \A m \in ends : k <= m
         IN  Entries(SubSeq(Lines, i + 1, j - 1))

\* C26: the answer routine caches the `path: description` lines of the
\* DESCRIPTIONS section and nothing else, and caches nothing for a reply that
\* has no DESCRIPTIONS header line
C26_OnlySectionLinesCached ==
    pOut.client # "none" =>
        LET container == IF pOut.client = "s3" THEN BUCKET ELSE AZ_CONTAINER
        IN  pOut.republished = [k \in DOMAIN SectionBody |-> <<container, SectionBody[k].p>>]

\* the routing rule: the S3 allow-list, else the Azure allow-list, else a "."
\* in the identifier means Azure, else S3
RuleBackend(id) ==
    IF id \in {env.S3_BUCKET, KnownS3Bucket} THEN "s3"
    ELSE IF id \in {env.AZURE_CONTAINER, KnownAzContainer} THEN "azure"
    ELSE IF id \in Dotted THEN "azure"
    ELSE "s3"

\* C27: every side-car lies on the backend the rule gives for the leading
\* segment of its path, whatever source tag its record carries; _load looks for
\* a side-car where _save puts it, and the record write_meta was given is the
\* record get_meta returns (the read path as it runs with TEST_MODE off)
C27_SameRuleBothWays ==
    /\ \A l \in DOMAIN store : l[1] = RuleBackend(l[2])
    /\ \A id \in Identifiers : SaveLoc(<<id, Orders>>)[1] = RuleBackend(id)
    /\ ~TEST_MODE =>
          /\ \A id \in Identifiers : LoadLoc(<<id, Orders>>) = SaveLoc(<<id, Orders>>)
          /\ written # <<>> =>
                get_meta(store, written[1].path) = Some(from_json(to_json(written[1])))

\* a record tagged s3 was written under a container of the Azure allow-list, and
\* one under an identifier with a ".", and both are read back from Azure
C27_Witness ==
    /\ ~TEST_MODE
    /\ written # <<>> /\ written[1].cloud = "s3" /\ written[1].path[1] = "files.corp"
    /\ <<"azure", "files.corp", Orders>> \in DOMAIN store
    /\ <<"azure", env.AZURE_CONTAINER, Orders>> \in DOMAIN store
    /\ get_meta(store, <<env.AZURE_CONTAINER, Orders>>) # None
    /\ get_meta(store, written[1].path) # None

\* the paths that have a side-car, and those whose side-car reads as a record
SidecarPaths(st) == {<<l[2], l[3]>> : l \in DOMAIN st}
RecordPaths(st) == {p \in SidecarPaths(st) : get_meta(st, p) # None}

\* C28: no step removes a side-car, and a path whose side-car reads as a record
\* keeps one that does
C28_NeverShrinks ==
    [][/\ DOMAIN store \subseteq DOMAIN store'
       /\ RecordPaths(store) \subseteq RecordPaths(store')]_vars

\* a request has rewritten the record of a file that had one, next to the
\* record of another file
C28_Witness ==
    /\ pc = "done"
    /\ Len(dispatched) >= 2
    /\ \E k \in DOMAIN dispatched : dispatched[k].client = "s3" /\ ~dispatched[k].raised
    /\ \E k \in DOMAIN dispatched : dispatched[k].client = "azure" /\ ~dispatched[k].raised
    /\ Cardinality(RecordPaths(store)) >= 3
    /\ get_meta(store, <<BUCKET, Orders>>) # None
    /\ get_meta(store, <<BUCKET, Orders>>)[1].description = <<"orders", "with", "totals">>
    /\ get_meta(store, <<BUCKET, Orders>>)[1].size = ObjSize(Orders)

\* a record without what names its backend: the source tag and the container
Untagged(m) == [m EXCEPT !.cloud = "", !.path = <<"", m.path[2]>>]

\* C29: side by side on the same listing and the same replies, the S3 and the
\* Azure answer routine end the same way, hand write_meta the same records in
\* the same order, and leave the same record for every listed file, the source
\* tag and the container apart
C29_ClientsSymmetric ==
    pOut.client = "both" =>
        /\ pOut.s3.raised = pOut.azure.raised
        /\ pOut.s3.ret = pOut.azure.ret
        /\ [i \in DOMAIN pOut.s3.written |-> Untagged(pOut.s3.written[i])]
             = [i \in DOMAIN pOut.azure.written |-> Untagged(pOut.azure.written[i])]
        /\ \A i \in DOMAIN objects.s3 :
              LET m == get_meta(store, <<BUCKET, objects.s3[i]>>)
                  n == get_meta(store, <<AZ_CONTAINER, objects.s3[i]>>)
              IN  /\ m = None <=> n = None
                  /\ m # None => Untagged(m[1]) = Untagged(n[1])

\* C30: where one step of the plan was dispatched and every other step was
\* skipped, no merge call is made and the request returns the answer of the
\* dispatched step as it stands
C30_OneDispatchedStepFastPath ==
    (/\ Len(dispatched) = 1 /\ ~dispatched[1].raised
     /\ Len(results) = Len(plan.steps))
    => /\ merges = <<>>
       /\ pc = "done" => outcome = Returned(results[dispatched[1].step].text)

====
